---- MODULE Spec2Model ----
(***************************************************************************)
(* Model of the nexus db package (src/db/main.go): the SelectQuery         *)
(* descriptor and its canonical string, the UseFilter compiler, the        *)
(* sync.Map result cache and the generic create/select/update/change/      *)
(* delete operations over a SurrealDB handle; and of the request mapping   *)
(* of the transport package (src/transport/main.go).                       *)
(*                                                                         *)
(* Go strings are TLA+ strings; a Go panic is an explicit outcome.         *)
(***************************************************************************)
EXTENDS Integers, Sequences, FiniteSets, Bags, TLC

(***************************************************************************)
(* Bounds of the model.                                                    *)
(***************************************************************************)
NumWorkers == 2
MaxWrites == 1
NumHandlers == 2
MaxPooled == 2

Workers == 1..NumWorkers
Tables == {"users", "posts"}

(***************************************************************************)
(* strings.Split(s, sep) for a one-character separator: the pieces of s    *)
(* between the occurrences of sep, at least one piece.                     *)
(***************************************************************************)
RECURSIVE SplitAt(_, _, _, _)
SplitAt(s, sep, start, i) ==
    IF i > Len(s)
    THEN <<SubSeq(s, start, Len(s))>>
    ELSE IF SubSeq(s, i, i) = sep
         THEN <<SubSeq(s, start, i - 1)>> \o SplitAt(s, sep, i + 1, i + 1)
         ELSE SplitAt(s, sep, start, i + 1)

Split(s, sep) == SplitAt(s, sep, 1, 1)

(* strings.Join(a, sep) *)
RECURSIVE Join(_, _)
Join(a, sep) ==
    IF Len(a) = 0 THEN ""
    ELSE IF Len(a) = 1 THEN a[1]
    ELSE a[1] \o sep \o Join(Tail(a), sep)

(***************************************************************************)
(* Values held by filter fields.  A field value is a Go value with its     *)
(* dynamic type; NilPtr is a nil pointer field.                            *)
(***************************************************************************)
NilPtr == [kind |-> "nil"]
StrVal(s) == [kind |-> "string", s |-> s]
BoolVal(b) == [kind |-> "bool", b |-> b]
IntVal(i) == [kind |-> "int", i |-> i]
Int64Val(i) == [kind |-> "int64", i |-> i]
Float64Val(txt) == [kind |-> "float64", s |-> txt]

(* The text fmt prints for a value under %v. *)
FmtV(v) ==
    CASE v.kind = "string" -> v.s
      [] v.kind = "bool" -> IF v.b THEN "true" ELSE "false"
      [] v.kind = "int" -> ToString(v.i)
      [] v.kind = "int64" -> ToString(v.i)
      [] v.kind = "float64" -> v.s

(* fmt's rendering of a verb applied to an operand of the wrong type. *)
FmtBad(verb, v) == "%!" \o verb \o "(" \o v.kind \o "=" \o FmtV(v) \o ")"

(* fmt.Sprintf("%s", v), "%d" and "%t" on an interface operand. *)
FmtS(v) == IF v.kind = "string" THEN v.s ELSE FmtBad("s", v)
FmtD(v) == IF v.kind \in {"int", "int64"} THEN ToString(v.i) ELSE FmtBad("d", v)
FmtT(v) == IF v.kind = "bool" THEN (IF v.b THEN "true" ELSE "false") ELSE FmtBad("t", v)

(***************************************************************************)
(* Filter struct types supplied by callers.  A type is the sequence of its *)
(* field declarations in declaration order: the Go identifier, the value   *)
(* of the json tag ("" when the field has none), whether the field is a    *)
(* pointer, and the pointed-to (or direct) kind.                           *)
(***************************************************************************)
Fld(name, tag, ptr, kind) == [name |-> name, tag |-> tag, ptr |-> ptr, kind |-> kind]

FilterTypes ==
    [ UserFilter |->
        << Fld("Status", "status,omitempty", TRUE, "string"),
           Fld("IsAdmin", "isAdmin", TRUE, "bool"),
           Fld("Group", "group", TRUE, "string"),
           Fld("Limit", "limit", TRUE, "int") >>,
      PostFilter |->
        << Fld("Title", "", TRUE, "string"),
           Fld("Draft", ",omitempty", TRUE, "bool") >>,
      PageFilter |->
        << Fld("Limit", "max", TRUE, "int"),
           Fld("Size", "limit", TRUE, "int") >>,
      MixFilter |->
        << Fld("Status", "status", TRUE, "string"),
           Fld("Count", "count", TRUE, "int64"),
           Fld("Score", "score", TRUE, "float64"),
           Fld("Active", "active", FALSE, "bool"),
           Fld("Limit", "limit", TRUE, "int") >> ]

(***************************************************************************)
(* A filter argument (Go `any`): the untyped nil interface, a pointer      *)
(* (nil or not) to a struct of a declared type, a struct passed by value,  *)
(* or a bare scalar.                                                       *)
(***************************************************************************)
NilIface == [k |-> "nil"]
NilPtrTo(t) == [k |-> "ptr", t |-> t, isnil |-> TRUE]
PtrTo(t, vals) == [k |-> "ptr", t |-> t, isnil |-> FALSE, v |-> vals]
ByValue(t, vals) == [k |-> "struct", t |-> t, v |-> vals]
Scalar(v) == [k |-> "scalar", v |-> v]

(* Outcome of a call that may panic. *)
Ok(s) == [panic |-> FALSE, s |-> s]
Panic == [panic |-> TRUE, s |-> ""]

(* reflect.ValueOf(f).IsNil(): defined on a pointer only; the zero Value   *)
(* of an untyped nil and every non-nillable kind panic.                    *)
IsNilPanics(f) == f.k # "ptr"

(* Index of the field FieldByName(name) finds, 0 when there is none. *)
FieldByName(decls, name) ==
    IF \E i \in 1..Len(decls) : decls[i].name = name
    THEN CHOOSE i \in 1..Len(decls) :
            /\ decls[i].name = name
            /\ \A j \in 1..(i - 1) : decls[j].name # name
    ELSE 0

(* Variant of FieldPredicate: the type switch has a case for int64. *)
FieldPredicateInt64(decl, val) ==
    IF decl.ptr /\ val.kind # "nil"
    THEN LET fln == Split(decl.tag, ",")[1]
         IN IF fln = "limit" \/ fln = "group"
            THEN ""
            ELSE CASE val.kind = "string" -> fln \o " = '" \o val.s \o "'"
                   [] val.kind = "bool" -> fln \o " = " \o FmtT(val)
                   [] val.kind \in {"int", "int64"} -> fln \o " = " \o FmtD(val)
                   [] OTHER -> ""
    ELSE ""

(* Variant of FieldPredicate: a string value is written without quotes. *)
FieldPredicateUnquoted(decl, val) ==
    IF decl.ptr /\ val.kind # "nil"
    THEN LET fln == Split(decl.tag, ",")[1]
         IN IF fln = "limit" \/ fln = "group"
            THEN ""
            ELSE CASE val.kind = "string" -> fln \o " = " \o val.s
                   [] val.kind = "bool" -> fln \o " = " \o FmtT(val)
                   [] val.kind = "int" -> fln \o " = " \o FmtD(val)
                   [] OTHER -> ""
    ELSE ""

(* The predicate one field contributes (main.go 296-315), "" for none. *)
FieldPredicate(decl, val) ==
    IF decl.ptr /\ val.kind # "nil"
    THEN LET fln == Split(decl.tag, ",")[1]
         IN IF fln = "limit" \/ fln = "group"
            THEN ""
            ELSE CASE val.kind = "string" -> fln \o " = '" \o val.s \o "'"
                   [] val.kind = "bool" -> fln \o " = " \o FmtT(val)
                   [] val.kind = "int" -> fln \o " = " \o FmtD(val)
                   [] OTHER -> ""
    ELSE ""

(* The slice w after the loop over the fields. *)
RECURSIVE Predicates(_, _, _)
Predicates(decls, vals, i) ==
    IF i > Len(decls) THEN <<>>
    ELSE LET p == FieldPredicate(decls[i], vals[i])
         IN (IF p = "" THEN <<>> ELSE <<p>>) \o Predicates(decls, vals, i + 1)

(* Variant of UseFilter: the LIMIT clause is appended before GROUP BY. *)
UseFilterLimitFirst(f, q) ==
    IF IsNilPanics(f) THEN Panic
    ELSE IF f.isnil THEN Ok(q)
    ELSE IF f.t \notin DOMAIN FilterTypes THEN Panic
    ELSE LET decls == FilterTypes[f.t]
             w == Predicates(decls, f.v, 1)
             q1 == IF Len(w) > 0 THEN q \o " WHERE " \o Join(w, " AND ") ELSE q
             g == FieldByName(decls, "Group")
             l == FieldByName(decls, "Limit")
             q2 == IF l # 0 /\ f.v[l].kind # "nil"
                   THEN q1 \o " LIMIT " \o FmtD(f.v[l]) ELSE q1
             q3 == IF g # 0 /\ f.v[g].kind # "nil"
                   THEN q2 \o " GROUP BY " \o FmtS(f.v[g]) ELSE q2
         IN IF (g # 0 /\ ~decls[g].ptr) \/ (l # 0 /\ ~decls[l].ptr)
            THEN Panic
            ELSE Ok(q3)

(***************************************************************************)
(* UseFilter (main.go 285-331).  The result is the query text, or a panic  *)
(* raised by the reflect calls.                                            *)
(***************************************************************************)
UseFilter(f, q) ==
    IF IsNilPanics(f) THEN Panic
    ELSE IF f.isnil THEN Ok(q)
    ELSE IF f.t \notin DOMAIN FilterTypes THEN Panic
    ELSE LET decls == FilterTypes[f.t]
             w == Predicates(decls, f.v, 1)
             q1 == IF Len(w) > 0 THEN q \o " WHERE " \o Join(w, " AND ") ELSE q
             g == FieldByName(decls, "Group")
             l == FieldByName(decls, "Limit")
             q2 == IF g # 0 /\ f.v[g].kind # "nil"
                   THEN q1 \o " GROUP BY " \o FmtS(f.v[g]) ELSE q1
             q3 == IF l # 0 /\ f.v[l].kind # "nil"
                   THEN q2 \o " LIMIT " \o FmtD(f.v[l]) ELSE q2
         IN IF (g # 0 /\ ~decls[g].ptr) \/ (l # 0 /\ ~decls[l].ptr)
            THEN Panic
            ELSE Ok(q3)

(***************************************************************************)
(* SelectQuery and its constructors (main.go 21-64).                       *)
(***************************************************************************)
NewSelectAll(t) == [TableName |-> t, Fields |-> <<>>, Filter |-> NilIface]

NewSelect(t, f) == [TableName |-> t, Fields |-> f, Filter |-> NilIface]

(* Variant of WithFilter: the filter is assigned without the nil test. *)
WithFilterNilClears(s, f) == [s EXCEPT !.Filter = f]

(* s.WithFilter(f): the descriptor the method returns. *)
WithFilter(s, f) == IF f = NilIface THEN s ELSE [s EXCEPT !.Filter = f]

(* The caller's descriptor after s.WithFilter(f).  The receiver is passed  *)
(* by value (func (s SelectQuery) WithFilter): the assignment to s.Filter  *)
(* is made on the callee's copy.                                           *)
ReceiverAfterWithFilter(s, f) == s

String(s) ==
    LET q == IF Len(s.Fields) = 0
             THEN "SELECT * FROM " \o s.TableName
             ELSE "SELECT " \o Join(s.Fields, ", ") \o " FROM " \o s.TableName
    IN UseFilter(s.Filter, q)

(***************************************************************************)
(* The result cache: a sync.Map from CacheKey to an untyped value.  A      *)
(* cached value carries its dynamic Go type (shape) and the decoded rows.  *)
(***************************************************************************)
CacheKey(t, q) == [TableName |-> t, Query |-> q]

CacheValue(shape, rows) == [shape |-> shape, rows |-> rows]

(* sync.Map.Store *)
Store(c, k, v) == [x \in DOMAIN c \cup {k} |-> IF x = k THEN v ELSE c[x]]

(* d.putQueryToCache(s, value), for a descriptor whose String() returns *)
putQueryToCache(c, s, value) ==
    Store(c, CacheKey(s.TableName, String(s).s), value)

(* d.getQueryFromCache(s): the value and a nil error, or "not found" *)
getQueryFromCache(c, s) ==
    LET k == CacheKey(s.TableName, String(s).s)
    IN IF k \in DOMAIN c
       THEN [err |-> FALSE, v |-> c[k]]
       ELSE [err |-> TRUE, v |-> CacheValue("", <<>>)]

(* Variant of clearCache: the Range callback stops the iteration after the *)
(* first key it deletes.                                                   *)
clearCacheStopsEarly(c, t) ==
    LET hit == {x \in DOMAIN c : x.TableName = t}
    IN IF hit = {} THEN c
       ELSE LET one == CHOOSE x \in hit : TRUE
            IN [k \in DOMAIN c \ {one} |-> c[k]]

(* Variant of clearCache: the whole map is emptied. *)
clearCacheAll(c, t) == [k \in {} |-> c[k]]

(* d.clearCache(t): Range over the map deleting the keys of table t *)
clearCache(c, t) ==
    [k \in {x \in DOMAIN c : x.TableName # t} |-> c[k]]

EmptyCache == [k \in {} |-> CacheValue("", <<>>)]

(***************************************************************************)
(* The storage backend (external SurrealDB handle d.s).  The content of a  *)
(* table is abstracted to the number of writes applied to it and whether   *)
(* it holds a record; the rows a query returns are a function of the query *)
(* text and of the content of the table it names.                          *)
(***************************************************************************)
LocalIds == {"1"}
RecordIds == {t \o ":" \o l : t \in Tables, l \in LocalIds}

(* Position after the first " FROM " of q at or after i, 0 when none. *)
RECURSIVE AfterFrom(_, _)
AfterFrom(q, i) ==
    IF i + 5 > Len(q) THEN 0
    ELSE IF SubSeq(q, i, i + 5) = " FROM " THEN i + 6
    ELSE AfterFrom(q, i + 1)

(* End of the word of q that starts at i. *)
RECURSIVE WordEnd(_, _)
WordEnd(q, i) ==
    IF i > Len(q) \/ SubSeq(q, i, i) = " " THEN i - 1 ELSE WordEnd(q, i + 1)

(* The target the query text selects from. *)
FromTable(q) ==
    LET i == AfterFrom(q, 1)
    IN IF i = 0 THEN "" ELSE SubSeq(q, i, WordEnd(q, i))

(* The table a thing (a table name or a record identifier) lives in. *)
TableOf(thing) == Split(thing, ":")[1]

(* d.s.Query(q, nil) when the call succeeds: the raw rows. *)
StorageRows(st, q) ==
    LET t == TableOf(FromTable(q))
    IN IF t \in Tables /\ ~st[t].empty
       THEN <<[query |-> q, ver |-> st[t].ver]>>
       ELSE <<>>

(* Effect of a successful d.s.Create/Update/Change/Delete on the store;    *)
(* gone says whether a delete removed the last record of the table.        *)
StorageWrite(st, op, thing, gone) ==
    LET t == TableOf(thing)
    IN [st EXCEPT ![t] = [ver |-> st[t].ver + 1,
                          empty |-> IF op = "delete" THEN (st[t].empty \/ gone)
                                    ELSE FALSE]]

(* Number of writes the store has applied. *)
RECURSIVE SumVer(_, _)
SumVer(st, ts) ==
    IF ts = {} THEN 0
    ELSE LET t == CHOOSE x \in ts : TRUE
         IN st[t].ver + SumVer(st, ts \ {t})

Writes(st) == SumVer(st, Tables)

(***************************************************************************)
(* The descriptors and arguments the callers of the model use.             *)
(***************************************************************************)
ActiveFilter == PtrTo("UserFilter", <<StrVal("active"), NilPtr, NilPtr, NilPtr>>)

ModelQueries ==
    { NewSelectAll("users"),
      WithFilter(NewSelectAll("users"), NilPtrTo("UserFilter")),
      WithFilter(NewSelect("users", <<"id", "name">>), ActiveFilter),
      WithFilter(NewSelectAll("posts"), NilPtrTo("UserFilter")) }

ResultTypes == {"User"}
SliceOf(T) == "[]" \o T
AnyShape == "[]map[string]any"

WriteOps == {"create", "update", "change", "delete"}
CreateThings == Tables \cup RecordIds

(***************************************************************************)
(* State.                                                                  *)
(*   cache    the sync.Map d.c                                             *)
(*   store    the content of the storage backend                           *)
(*   wk       per worker: the operation in flight and its position         *)
(*   last     the operation that returned most recently (history)          *)
(*   crashed  a panic has unwound a worker                                 *)
(*   serial   the callers serialize their operations externally            *)
(*   sq, out  a descriptor under construction and its rendering            *)
(*   wf       the last WithFilter call on sq: its argument, and whether    *)
(*            the receiver was the same after the call as before           *)
(*   hd       the invocation of a MapperHandler function in flight         *)
(*   res      the triple the handler function returned last, with the      *)
(*            payload it was given and what it did on the way              *)
(*   hs       per subscription callback of Transport.Handle: the message   *)
(*            it is handling and its position                              *)
(*   errPool, okPool   the two sync.Pool of response envelopes             *)
(***************************************************************************)
VARIABLES cache, store, wk, last, crashed, serial, sq, out, wf, hd, res,
          hs, errPool, okPool

vars == <<cache, store, wk, last, crashed, serial, sq, out, wf, hd, res,
          hs, errPool, okPool>>

NoQuery == [TableName |-> "", Fields |-> <<>>, Filter |-> NilIface]

Idle == [pc |-> "idle", op |-> "none", shape |-> "", s |-> NoQuery,
         thing |-> "", p |-> <<>>, mism |-> FALSE]

NoLast == [op |-> "none", shape |-> "", s |-> NoQuery, thing |-> "",
           outcome |-> "", rows |-> <<>>, queried |-> FALSE, wrote |-> FALSE,
           mism |-> FALSE, gone |-> {}, after |-> FALSE]

(* The zero value of the request type R: struct { N int `validate:"min=1"` } *)
ZeroR == [n |-> 0]

(* Go's nil `any` and nil error, a value of type V, an error. *)
NilAny == [k |-> "nil"]
NilErr == [isnil |-> TRUE, msg |-> ""]
Err(msg) == [isnil |-> FALSE, msg |-> msg]

(* m.Data of a message: a nil slice or the bytes as text. *)
NilData == [isnil |-> TRUE, b |-> ""]
Data(b) == [isnil |-> FALSE, b |-> b]

HandlerIdle == [pc |-> "idle", data |-> NilData, r |-> ZeroR,
                unmarshalled |-> FALSE, validated |-> FALSE]

NoResult == [returned |-> FALSE, v |-> NilAny, code |-> 0, err |-> NilErr,
             data |-> NilData, unmarshalled |-> FALSE, validated |-> FALSE,
             dbcalled |-> FALSE, dberr |-> NilErr]

(* A response envelope: *NATSError{Status, Error} or *NATSOk{Status, Body}. *)
Envelope(type, status, error, body) ==
    [type |-> type, Status |-> status, Error |-> error, Body |-> body]

NoEnvelope == Envelope("none", 0, "", NilAny)

Handlers == 1..NumHandlers

HandlerFree == [pc |-> "idle", v |-> NilAny, c |-> 0, err |-> NilErr,
                env |-> NoEnvelope, marshalled |-> FALSE, att |-> 0,
                sent |-> NoEnvelope]

NoCall == [called |-> FALSE, f |-> NilIface, kept |-> TRUE]

NoOut == [done |-> FALSE, panic |-> FALSE, s |-> "", err |-> ""]

(* Variant of ClearTarget: the identifier is not split, the whole of it is *)
(* passed to clearCache.                                                   *)
ClearTargetWholeId(op, thing) == thing

(* The argument the operation passes to clearCache: thing for a create,    *)
(* m[0] of strings.Split(id, ":") for the others.                          *)
ClearTarget(op, thing) ==
    IF op = "create" THEN thing ELSE Split(thing, ":")[1]

(* The table a write is addressed to by its caller: the thing of a create, *)
(* the table of the record identifier of an update, change or delete.      *)
AddressedTable(op, thing) == IF op = "create" THEN thing ELSE TableOf(thing)

(* The record of an operation that returns now.  after: it is a select     *)
(* and the operation that returned before it is a successful write         *)
(* addressed to the select's table.                                        *)
Returned(op, shape, s, thing, outcome, rows, queried, wrote, mism, gone) ==
    [op |-> op, shape |-> shape, s |-> s, thing |-> thing,
     outcome |-> outcome, rows |-> rows, queried |-> queried, wrote |-> wrote,
     mism |-> mism, gone |-> gone,
     after |-> /\ op = "select"
               /\ last.op \in {"create", "update", "change", "delete"}
               /\ last.outcome = "ok"
               /\ AddressedTable(last.op, last.thing) = s.TableName]

InitDB ==
    /\ cache = EmptyCache
    /\ \E e \in [Tables -> BOOLEAN] :
          store = [t \in Tables |-> [ver |-> 0, empty |-> e[t]]]
    /\ wk = [w \in Workers |-> Idle]
    /\ last = NoLast
    /\ crashed = FALSE
    /\ sq = NoQuery
    /\ out = NoOut
    /\ wf = NoCall
    /\ hd = HandlerIdle
    /\ res = NoResult
    /\ hs = [h \in Handlers |-> HandlerFree]
    /\ errPool = EmptyBag
    /\ okPool = EmptyBag

Init == InitDB /\ serial = TRUE

InitConc == InitDB /\ serial = FALSE /\ ~store["posts"].empty

(* No operation is in flight. *)
Quiet == \A u \in Workers : wk[u].pc = "idle"

(* A worker may start an operation. *)
CanStart(w) ==
    /\ ~crashed
    /\ wk[w].pc = "idle"
    /\ serial => Quiet

(* What the operations of the db package leave alone. *)
Frame == UNCHANGED <<serial, sq, out, wf, hd, res, hs, errPool, okPool>>

(***************************************************************************)
(* GeneralSelect / GeneralSelectAny (main.go 163-187, 200-224).            *)
(*                                                                         *)
(* First step: the cache lookup and the type assertion on a hit.  The      *)
(* descriptor is rendered for the key; a panic of UseFilter unwinds the    *)
(* worker.                                                                 *)
(***************************************************************************)
(* Variant of SelectCall: the cache is not consulted. *)
SelectCallNoLookup(w, shape, s) ==
    /\ CanStart(w)
    /\ Frame
    /\ IF String(s).panic
       THEN /\ crashed' = TRUE
            /\ last' = Returned("select", shape, s, "", "panic", <<>>,
                                FALSE, FALSE, FALSE, {})
            /\ UNCHANGED <<cache, store, wk>>
       ELSE /\ wk' = [wk EXCEPT ![w] =
                        [Idle EXCEPT !.pc = "query", !.op = "select",
                                     !.shape = shape, !.s = s]]
            /\ UNCHANGED <<cache, store, last, crashed>>

SelectCall(w, shape, s) ==
    /\ CanStart(w)
    /\ Frame
    /\ IF String(s).panic
       THEN /\ crashed' = TRUE
            /\ last' = Returned("select", shape, s, "", "panic", <<>>,
                                FALSE, FALSE, FALSE, {})
            /\ UNCHANGED <<cache, store, wk>>
       ELSE LET cv == getQueryFromCache(cache, s)
            IN IF ~cv.err /\ cv.v.shape = shape
               THEN /\ last' = Returned("select", shape, s, "", "ok", cv.v.rows,
                                        FALSE, FALSE, FALSE, {})
                    /\ UNCHANGED <<cache, store, wk, crashed>>
               ELSE /\ wk' = [wk EXCEPT ![w] =
                                [Idle EXCEPT !.pc = "query", !.op = "select",
                                             !.shape = shape, !.s = s,
                                             !.mism = ~cv.err]]
                    /\ UNCHANGED <<cache, store, last, crashed>>

GeneralSelect(w, T, s) == SelectCall(w, SliceOf(T), s)

GeneralSelectAny(w, s) == SelectCall(w, AnyShape, s)

(***************************************************************************)
(* Second step: d.s.Query and surrealdb.UnmarshalRaw (172-184, 209-221).   *)
(* The query may fail; decoding may fail; UnmarshalRaw reports ok = false  *)
(* for an empty result set and the select then returns an empty slice.     *)
(***************************************************************************)
(* Variant of SelectQueryStep: the result is stored before the error check, *)
(* so a select that fails leaves an entry behind.                          *)
SelectQueryStepStoresOnError(w) ==
    /\ wk[w].pc = "query"
    /\ Frame
    /\ LET me == wk[w]
           rows == StorageRows(store, String(me.s).s)
       IN \/ /\ last' = Returned("select", me.shape, me.s, "", "err", <<>>,
                                 TRUE, FALSE, me.mism, {})
             /\ wk' = [wk EXCEPT ![w] = Idle]
             /\ cache' = putQueryToCache(cache, me.s, CacheValue(me.shape, <<>>))
          \/ /\ rows = <<>>
             /\ last' = Returned("select", me.shape, me.s, "", "ok", <<>>,
                                 TRUE, FALSE, me.mism, {})
             /\ wk' = [wk EXCEPT ![w] = Idle]
             /\ UNCHANGED cache
          \/ /\ rows # <<>>
             /\ wk' = [wk EXCEPT ![w] = [me EXCEPT !.pc = "put", !.p = rows]]
             /\ UNCHANGED <<last, cache>>
    /\ UNCHANGED <<store, crashed>>

SelectQueryStep(w) ==
    /\ wk[w].pc = "query"
    /\ Frame
    /\ LET me == wk[w]
           rows == StorageRows(store, String(me.s).s)
       IN \/ /\ last' = Returned("select", me.shape, me.s, "", "err", <<>>,
                                 TRUE, FALSE, me.mism, {})
             /\ wk' = [wk EXCEPT ![w] = Idle]
          \/ /\ rows = <<>>
             /\ last' = Returned("select", me.shape, me.s, "", "ok", <<>>,
                                 TRUE, FALSE, me.mism, {})
             /\ wk' = [wk EXCEPT ![w] = Idle]
          \/ /\ rows # <<>>
             /\ wk' = [wk EXCEPT ![w] = [me EXCEPT !.pc = "put", !.p = rows]]
             /\ UNCHANGED last
    /\ UNCHANGED <<cache, store, crashed>>

(* Third step: d.putQueryToCache(s, p) and the return (185-186, 222-223). *)
SelectPutStep(w) ==
    /\ wk[w].pc = "put"
    /\ Frame
    /\ LET me == wk[w]
       IN /\ cache' = putQueryToCache(cache, me.s, CacheValue(me.shape, me.p))
          /\ last' = Returned("select", me.shape, me.s, "", "ok", me.p,
                              TRUE, FALSE, me.mism, {})
    /\ wk' = [wk EXCEPT ![w] = Idle]
    /\ UNCHANGED <<store, crashed>>

(***************************************************************************)
(* The mutating operations.  First step: the storage call and the decoding *)
(* of its answer; either may fail, and the operation then returns the      *)
(* error.                                                                  *)
(***************************************************************************)
(* Variant of WriteCall: the cache is invalidated before the storage call. *)
WriteCallClearFirst(w, op, thing) ==
    /\ CanStart(w)
    /\ Frame
    /\ TableOf(thing) \in Tables
    /\ cache' = clearCache(cache, IF op = "create" THEN thing
                                  ELSE Split(thing, ":")[1])
    /\ \/ /\ last' = Returned(op, "", NoQuery, thing, "err", <<>>,
                              FALSE, FALSE, FALSE, {})
          /\ UNCHANGED <<store, wk>>
       \/ /\ Writes(store) < MaxWrites
          /\ \E g \in (IF op = "delete" THEN BOOLEAN ELSE {FALSE}) :
                store' = StorageWrite(store, op, thing, g)
          /\ last' = Returned(op, "", NoQuery, thing, "err", <<>>,
                              FALSE, TRUE, FALSE, {})
          /\ UNCHANGED wk
       \/ /\ Writes(store) < MaxWrites
          /\ \E g \in (IF op = "delete" THEN BOOLEAN ELSE {FALSE}) :
                store' = StorageWrite(store, op, thing, g)
          /\ wk' = [wk EXCEPT ![w] =
                      [Idle EXCEPT !.pc = "clear", !.op = op, !.thing = thing]]
          /\ UNCHANGED last
    /\ UNCHANGED crashed

WriteCall(w, op, thing) ==
    /\ CanStart(w)
    /\ Frame
    /\ TableOf(thing) \in Tables
    /\ \/ /\ last' = Returned(op, "", NoQuery, thing, "err", <<>>,
                              FALSE, FALSE, FALSE, {})
          /\ UNCHANGED <<cache, store, wk>>
       \/ /\ Writes(store) < MaxWrites
          /\ \E g \in (IF op = "delete" THEN BOOLEAN ELSE {FALSE}) :
                store' = StorageWrite(store, op, thing, g)
          /\ last' = Returned(op, "", NoQuery, thing, "err", <<>>,
                              FALSE, TRUE, FALSE, {})
          /\ UNCHANGED <<cache, wk>>
       \/ /\ Writes(store) < MaxWrites
          /\ \E g \in (IF op = "delete" THEN BOOLEAN ELSE {FALSE}) :
                store' = StorageWrite(store, op, thing, g)
          /\ wk' = [wk EXCEPT ![w] =
                      [Idle EXCEPT !.pc = "clear", !.op = op, !.thing = thing]]
          /\ UNCHANGED <<cache, last>>
    /\ UNCHANGED crashed

(* GeneralCreate (141-155) *)
GeneralCreate(w, thing) == WriteCall(w, "create", thing)

(* GeneralUpdate (230-242) *)
GeneralUpdate(w, id) == WriteCall(w, "update", id)

(* GeneralChange (248-260) *)
GeneralChange(w, id) == WriteCall(w, "change", id)

(* GeneralDelete (266-278) *)
GeneralDelete(w, id) == WriteCall(w, "delete", id)

(* Second step: d.clearCache and the return. *)
WriteClearStep(w) ==
    /\ wk[w].pc = "clear"
    /\ Frame
    /\ LET me == wk[w]
           c2 == clearCache(cache, ClearTarget(me.op, me.thing))
       IN /\ cache' = c2
          /\ last' = Returned(me.op, "", NoQuery, me.thing, "ok", <<>>,
                              FALSE, TRUE, FALSE, DOMAIN cache \ DOMAIN c2)
    /\ wk' = [wk EXCEPT ![w] = Idle]
    /\ UNCHANGED <<store, crashed>>

(***************************************************************************)
(* Specifications.  In Spec operations do not overlap: a worker starts an  *)
(* operation only when no other is in flight.  In SpecConc the workers     *)
(* interleave freely at the granularity of the steps above.                *)
(***************************************************************************)
Next ==
    \/ \E w \in Workers, T \in ResultTypes, s \in ModelQueries :
          GeneralSelect(w, T, s)
    \/ \E w \in Workers, s \in ModelQueries : GeneralSelectAny(w, s)
    \/ \E w \in Workers, thing \in CreateThings : GeneralCreate(w, thing)
    \/ \E w \in Workers, id \in RecordIds : GeneralUpdate(w, id)
    \/ \E w \in Workers, id \in RecordIds : GeneralChange(w, id)
    \/ \E w \in Workers, id \in RecordIds : GeneralDelete(w, id)
    \/ \E w \in Workers : SelectQueryStep(w)
    \/ \E w \in Workers : SelectPutStep(w)
    \/ \E w \in Workers : WriteClearStep(w)

Spec == Init /\ [][Next]_vars

(***************************************************************************)
(* Concurrent callers.  The descriptor a select holds is a copy, but its   *)
(* Filter is a pointer to a struct of the caller: while the select is in   *)
(* flight another goroutine of the caller may assign to the fields of      *)
(* that struct.  The workers address one table with one descriptor and     *)
(* one mutating operation.                                                 *)
(***************************************************************************)
BlockedFilter == PtrTo("UserFilter", <<StrVal("blocked"), NilPtr, NilPtr, NilPtr>>)

ConcQueries == { WithFilter(NewSelectAll("users"), ActiveFilter) }

ConcFilterVals == {ActiveFilter.v, BlockedFilter.v}

(* Another goroutine writes the fields of the filter struct the descriptor *)
(* of the select in flight at w points to.                                 *)
FilterMutation(w, v) ==
    /\ ~serial
    /\ ~crashed
    /\ wk[w].pc \in {"query", "put"}
    /\ wk[w].s.Filter.k = "ptr" /\ ~wk[w].s.Filter.isnil
    /\ wk[w].s.Filter.v # v
    /\ wk' = [wk EXCEPT ![w].s.Filter.v = v]
    /\ UNCHANGED <<cache, store, last, crashed>>
    /\ Frame

NextConc ==
    \/ \E w \in Workers, T \in ResultTypes, s \in ConcQueries :
          GeneralSelect(w, T, s)
    \/ \E w \in Workers, id \in {"users:1"} : GeneralUpdate(w, id)
    \/ \E w \in Workers : SelectQueryStep(w)
    \/ \E w \in Workers : SelectPutStep(w)
    \/ \E w \in Workers : WriteClearStep(w)
    \/ \E w \in Workers, v \in ConcFilterVals : FilterMutation(w, v)

SpecConc == InitConc /\ [][NextConc]_vars

(***************************************************************************)
(* Record-addressed callers: operations that do not overlap, where the     *)
(* thing of a create and the table of a select may be a record identifier  *)
(* table:id as well as a table.                                            *)
(***************************************************************************)
RecordQueries ==
    { WithFilter(NewSelectAll("users"), NilPtrTo("UserFilter")),
      WithFilter(NewSelectAll("users:1"), NilPtrTo("UserFilter")) }

NextRecord ==
    \/ \E w \in Workers, T \in ResultTypes, s \in RecordQueries :
          GeneralSelect(w, T, s)
    \/ \E w \in Workers, thing \in {"users", "users:1"} : GeneralCreate(w, thing)
    \/ \E w \in Workers, id \in {"users:1"} : GeneralUpdate(w, id)
    \/ \E w \in Workers, id \in {"users:1"} : GeneralChange(w, id)
    \/ \E w \in Workers, id \in {"users:1"} : GeneralDelete(w, id)
    \/ \E w \in Workers : SelectQueryStep(w)
    \/ \E w \in Workers : SelectPutStep(w)
    \/ \E w \in Workers : WriteClearStep(w)

SpecRecord == Init /\ [][NextRecord]_vars

(***************************************************************************)
(* Descriptor construction and rendering on their own: a caller builds a   *)
(* descriptor with NewSelectAll / NewSelect, attaches filters with         *)
(* WithFilter and renders it with String().                                *)
(***************************************************************************)
FieldLists == {<<>>, <<"id", "name">>}

UserFilterVals ==
    { <<a, b, g, l>> : a \in {NilPtr, StrVal("active")},
                       b \in {NilPtr, BoolVal(TRUE), BoolVal(FALSE)},
                       g \in {NilPtr, StrVal("role")},
                       l \in {NilPtr, IntVal(5), IntVal(10)} }

PostFilterVals ==
    { <<a, b>> : a \in {NilPtr, StrVal("x")}, b \in {NilPtr, BoolVal(TRUE)} }

PageFilterVals ==
    { <<a, b>> : a \in {NilPtr, IntVal(5)}, b \in {NilPtr, IntVal(20)} }

MixFilterVals ==
    { <<a, b, c, d, l>> : a \in {NilPtr, StrVal("active")},
                          b \in {NilPtr, Int64Val(7)},
                          c \in {NilPtr, Float64Val("1.5")},
                          d \in {BoolVal(TRUE), BoolVal(FALSE)},
                          l \in {NilPtr, IntVal(5)} }

(* Arguments that are not a pointer to a struct: a struct passed by value  *)
(* (the README's WithFilter(UserFilter{...})), bare scalars, a pointer to  *)
(* an int.                                                                 *)
ShapelessInputs ==
    { ByValue("UserFilter", <<NilPtr, BoolVal(TRUE), NilPtr, NilPtr>>),
      Scalar(IntVal(5)), Scalar(StrVal("x")),
      PtrTo("int", <<IntVal(5)>>), NilPtrTo("int") }

FilterInputs ==
    {NilIface, NilPtrTo("UserFilter")}
        \cup {PtrTo("UserFilter", v) : v \in UserFilterVals}
        \cup {PtrTo("PostFilter", v) : v \in PostFilterVals}
        \cup {PtrTo("PageFilter", v) : v \in PageFilterVals}
        \cup {PtrTo("MixFilter", v) : v \in MixFilterVals}
        \cup ShapelessInputs

FrameDB ==
    UNCHANGED <<cache, store, wk, last, crashed, serial, hd, res,
                hs, errPool, okPool>>

DoNewSelectAll(t) ==
    /\ sq' = NewSelectAll(t)
    /\ out' = NoOut
    /\ wf' = NoCall
    /\ FrameDB

DoNewSelect(t, f) ==
    /\ sq' = NewSelect(t, f)
    /\ out' = NoOut
    /\ wf' = NoCall
    /\ FrameDB

DoWithFilter(f) ==
    /\ sq # NoQuery
    /\ sq' = WithFilter(sq, f)
    /\ out' = NoOut
    /\ wf' = [called |-> TRUE, f |-> f,
              kept |-> ReceiverAfterWithFilter(sq, f) = sq]
    /\ FrameDB

DoString ==
    /\ sq # NoQuery
    /\ ~out.done
    /\ out' = [done |-> TRUE, panic |-> String(sq).panic, s |-> String(sq).s,
               err |-> ""]
    /\ UNCHANGED <<sq, wf>>
    /\ FrameDB

NextFilter ==
    \/ \E t \in Tables : DoNewSelectAll(t)
    \/ \E t \in Tables, f \in FieldLists : DoNewSelect(t, f)
    \/ \E f \in FilterInputs : DoWithFilter(f)
    \/ DoString

SpecFilter == Init /\ [][NextFilter]_vars

(***************************************************************************)
(* The transport package (src/transport/main.go): the function             *)
(* MapperHandler returns, applied to a message.  R is a request struct     *)
(* with one validated integer field, V the value dbFn produces.            *)
(***************************************************************************)
Digits == "0123456789"

(* The value of a one-digit decimal text, -1 when it is not one. *)
DigitValue(c) ==
    IF \E i \in 1..10 : SubSeq(Digits, i, i) = c
    THEN (CHOOSE i \in 1..10 : SubSeq(Digits, i, i) = c) - 1
    ELSE -1

(* json.Unmarshal(b, &r) for R: the object {"n":<digit>} decodes, any      *)
(* other text is an error.                                                 *)
Unmarshal(b) ==
    LET pre == "{\"n\":"
    IN IF /\ Len(b) = Len(pre) + 2
          /\ SubSeq(b, 1, Len(pre)) = pre
          /\ SubSeq(b, Len(b), Len(b)) = "}"
          /\ DigitValue(SubSeq(b, Len(pre) + 1, Len(pre) + 1)) >= 0
       THEN [err |-> NilErr,
             r |-> [n |-> DigitValue(SubSeq(b, Len(pre) + 1, Len(pre) + 1))]]
       ELSE [err |-> Err("invalid character"), r |-> ZeroR]

(* validate.Struct(r) for R: the field must be at least 1. *)
ValidateStruct(r) ==
    IF r.n >= 1 THEN NilErr ELSE Err("Field validation for 'N' failed")

Payloads ==
    {NilData, Data(""), Data("{"), Data("{\"n\":0}"), Data("{\"n\":1}"),
     Data("{\"n\":2}")}

(* What the caller's dbFn may return for a request: an error or a value. *)
DbErrors == {Err("not found"), Err("storage down")}
DbValues(r) == {[k |-> "val", n |-> r.n, row |-> x] : x \in {"a", "b"}}

FrameTransport ==
    UNCHANGED <<cache, store, wk, last, crashed, serial, sq, out, wf,
                hs, errPool, okPool>>

(* The handler function returns (v, code, err). *)
Return(v, code, err, dbcalled, dberr) ==
    /\ res' = [returned |-> TRUE, v |-> v, code |-> code, err |-> err,
               data |-> hd.data, unmarshalled |-> hd.unmarshalled,
               validated |-> hd.validated, dbcalled |-> dbcalled,
               dberr |-> dberr]
    /\ hd' = HandlerIdle

(* The function is called with message m. *)
MapperCall(data) ==
    /\ hd.pc = "idle"
    /\ hd' = [HandlerIdle EXCEPT !.pc = "unmarshal", !.data = data]
    /\ UNCHANGED res
    /\ FrameTransport

(* var r R; the payload test and json.Unmarshal (125-129). *)
MapperUnmarshalStep ==
    /\ hd.pc = "unmarshal"
    /\ FrameTransport
    /\ IF ~hd.data.isnil /\ Len(hd.data.b) > 0
       THEN LET u == Unmarshal(hd.data.b)
            IN IF ~u.err.isnil
               THEN Return(NilAny, 400, u.err, FALSE, NilErr)
               ELSE /\ hd' = [hd EXCEPT !.pc = "validate", !.r = u.r,
                                        !.unmarshalled = TRUE]
                    /\ UNCHANGED res
       ELSE /\ hd' = [hd EXCEPT !.pc = "db"]
            /\ UNCHANGED res

(* validate.Struct(r) (130-132). *)
MapperValidateStep ==
    /\ hd.pc = "validate"
    /\ FrameTransport
    /\ LET e == ValidateStruct(hd.r)
       IN IF ~e.isnil
          THEN Return(NilAny, 400, e, FALSE, NilErr)
          ELSE /\ hd' = [hd EXCEPT !.pc = "db", !.validated = TRUE]
               /\ UNCHANGED res

(* Variant of MapperDbStep: an error of dbFn is returned with status 200. *)
MapperDbStepStatus200 ==
    /\ hd.pc = "db"
    /\ FrameTransport
    /\ \/ \E e \in DbErrors : Return(NilAny, 200, e, TRUE, e)
       \/ \E v \in DbValues(hd.r) : Return(v, 200, NilErr, TRUE, NilErr)

(* v, err := dbFn(&r) and the two returns after it (134-138). *)
MapperDbStep ==
    /\ hd.pc = "db"
    /\ FrameTransport
    /\ \/ \E e \in DbErrors : Return(NilAny, 500, e, TRUE, e)
       \/ \E v \in DbValues(hd.r) : Return(v, 200, NilErr, TRUE, NilErr)

NextTransport ==
    \/ \E data \in Payloads : MapperCall(data)
    \/ MapperUnmarshalStep
    \/ MapperValidateStep
    \/ MapperDbStep

SpecTransport == Init /\ [][NextTransport]_vars

(***************************************************************************)
(* Transport.Handle (src/transport/main.go 62-98) and the pool helpers     *)
(* (src/unnamed/part_001).  Each subscription runs its callback for one    *)
(* message at a time; callbacks of different subscriptions interleave.     *)
(* A sync.Pool is a bag of envelopes: Get takes any pooled envelope or     *)
(* makes a new one, Put may drop the envelope (here: when the pool is      *)
(* full).                                                                  *)
(***************************************************************************)
NewNATSError == Envelope("NATSError", 0, "", NilAny)
NewNATSOk == Envelope("NATSOk", 0, "", NilAny)

(* pool.Get(): the envelope obtained and the pool left. *)
PoolGet(pool, new) ==
    {[item |-> x, pool |-> pool (-) SetToBag({x})] : x \in BagToSet(pool)}
        \cup {[item |-> new, pool |-> pool]}

(* pool.Put(x) *)
PoolPut(pool, x) ==
    IF BagCardinality(pool) < MaxPooled THEN pool (+) SetToBag({x}) ELSE pool

(* The pools after t.returnErrorToPool(e). *)
returnErrorToPool(ep, op, e) ==
    [errPool |-> PoolPut(ep, [e EXCEPT !.Status = 0, !.Error = ""]),
     okPool |-> op]

(* The pools after t.returnOkToPool(o): the envelope is put into errPool. *)
returnOkToPool(ep, op, o) ==
    [errPool |-> PoolPut(ep, [o EXCEPT !.Status = 0, !.Body = NilAny]),
     okPool |-> op]

(* What fn may return for a message: (v, c, err).  The last value is one   *)
(* json.Marshal rejects (a channel).                                       *)
FnResults ==
    { [v |-> NilAny, c |-> 400, err |-> Err("invalid character")],
      [v |-> NilAny, c |-> 500, err |-> Err("not found")],
      [v |-> [k |-> "val", n |-> 1, row |-> "a"], c |-> 200, err |-> NilErr],
      [v |-> [k |-> "chan", n |-> 0, row |-> ""], c |-> 200, err |-> NilErr] }

(* json.Marshal(envelope) succeeds. *)
Marshals(e) == e.Body.k # "chan"

(* No callback has panicked (a panic in a callback ends the process). *)
NoPanic == \A h \in Handlers : hs[h].pc # "panic"

FrameHandle ==
    UNCHANGED <<cache, store, wk, last, crashed, serial, sq, out, wf, hd, res>>

(* A message arrives and fn is applied to it (69). *)
HandleMessage(h, r) ==
    /\ NoPanic
    /\ hs[h].pc = "idle"
    /\ hs' = [hs EXCEPT ![h] = [HandlerFree EXCEPT !.pc = "get", !.v = r.v,
                                                   !.c = r.c, !.err = r.err]]
    /\ UNCHANGED <<errPool, okPool>>
    /\ FrameHandle

(* getErrorFromPool (71) or getOkFromPool (85): Get, the type assertion,   *)
(* the assignments to the fields.                                          *)
HandleGetStep(h) ==
    /\ NoPanic
    /\ hs[h].pc = "get"
    /\ FrameHandle
    /\ IF ~hs[h].err.isnil
       THEN \E g \in PoolGet(errPool, NewNATSError) :
              /\ errPool' = g.pool
              /\ UNCHANGED okPool
              /\ IF g.item.type # "NATSError"
                 THEN hs' = [hs EXCEPT ![h].pc = "panic"]
                 ELSE hs' = [hs EXCEPT ![h].pc = "marshal",
                                       ![h].env = [g.item EXCEPT
                                                     !.Status = hs[h].c,
                                                     !.Error = hs[h].err.msg]]
       ELSE \E g \in PoolGet(okPool, NewNATSOk) :
              /\ okPool' = g.pool
              /\ UNCHANGED errPool
              /\ IF g.item.type # "NATSOk"
                 THEN hs' = [hs EXCEPT ![h].pc = "panic"]
                 ELSE hs' = [hs EXCEPT ![h].pc = "marshal",
                                       ![h].env = [g.item EXCEPT
                                                     !.Status = hs[h].c,
                                                     !.Body = hs[h].v]]

(* json.Marshal of the envelope (74-78, 88-92): on error the callback      *)
(* logs and returns.                                                       *)
HandleMarshalStep(h) ==
    /\ NoPanic
    /\ hs[h].pc = "marshal"
    /\ FrameHandle
    /\ UNCHANGED <<errPool, okPool>>
    /\ IF Marshals(hs[h].env)
       THEN hs' = [hs EXCEPT ![h].pc = "respond", ![h].marshalled = TRUE]
       ELSE hs' = [hs EXCEPT ![h].pc = "release"]

(* msg.Respond(resp) (79-82, 93-95): one attempt, its error is logged. *)
HandleRespondStep(h) ==
    /\ NoPanic
    /\ hs[h].pc = "respond"
    /\ FrameHandle
    /\ UNCHANGED <<errPool, okPool>>
    /\ hs' = [hs EXCEPT ![h].pc = "release", ![h].att = hs[h].att + 1,
                        ![h].sent = hs[h].env]

(* The callback returns: the deferred returnErrorToPool (72) or            *)
(* returnOkToPool (86) runs.                                               *)
HandleReleaseStep(h) ==
    /\ NoPanic
    /\ hs[h].pc = "release"
    /\ FrameHandle
    /\ LET p == IF hs[h].env.type = "NATSError"
                THEN returnErrorToPool(errPool, okPool, hs[h].env)
                ELSE returnOkToPool(errPool, okPool, hs[h].env)
       IN /\ errPool' = p.errPool
          /\ okPool' = p.okPool
    /\ hs' = [hs EXCEPT ![h] = HandlerFree]

NextHandle ==
    \/ \E h \in Handlers, r \in FnResults : HandleMessage(h, r)
    \/ \E h \in Handlers : HandleGetStep(h)
    \/ \E h \in Handlers : HandleMarshalStep(h)
    \/ \E h \in Handlers : HandleRespondStep(h)
    \/ \E h \in Handlers : HandleReleaseStep(h)

SpecHandle == Init /\ [][NextHandle]_vars

(***************************************************************************)
(* Properties.                                                             *)
(***************************************************************************)
Key(s) == CacheKey(s.TableName, String(s).s)

(* A select returns in this step. *)
SelectReturns ==
    \/ \E w \in Workers : wk[w].pc \in {"query", "put"} /\ wk'[w].pc = "idle"
    \/ Quiet /\ wk' = wk /\ last'.op = "select" /\ last' # last

(* A mutating operation makes its storage call in this step. *)
WriteCallStep ==
    \/ \E w \in Workers : wk[w].pc = "idle" /\ wk'[w].pc = "clear"
    \/ /\ Quiet /\ wk' = wk /\ last'.op \in WriteOps
       /\ (last' # last \/ store' # store \/ cache' # cache)

(* C1: write invalidation.  With operations that do not overlap, a select  *)
(* that returns right after a successful create, update, change or delete  *)
(* addressed to its table has not been served from the cache: it queried   *)
(* storage, and the value it returns is the rows storage holds after the   *)
(* write (compared while no later operation is in flight).                 *)
C1_WriteInvalidation ==
    (Quiet /\ last.op = "select" /\ last.after /\ last.outcome # "panic")
        => /\ last.queried
           /\ last.outcome = "ok"
                => last.rows = StorageRows(store, String(last.s).s)

C1_Witness ==
    /\ Quiet
    /\ last.op = "select" /\ last.after /\ last.outcome = "ok"
    /\ last.queried
    /\ last.rows # <<>>
    /\ last.rows[1].ver > 0

(* C2: invalidation is never skipped on a successful write.  Whenever the  *)
(* storage call of a mutating operation succeeded, no cache entry of the   *)
(* table it is addressed to is left when the operation has returned,       *)
(* whatever the outcome of the decoding.                                   *)
C2_NeverSkipped ==
    (last.op \in WriteOps /\ last.wrote)
        => \A k \in DOMAIN cache :
              k.TableName # AddressedTable(last.op, last.thing)

(* C3: invalidation happens after the storage operation, never before.     *)
(* The step in which a mutating operation calls storage leaves the cache   *)
(* as it is; when that call fails the operation returns the error and      *)
(* neither the cache nor the store has changed.                            *)
C3_InvalidateAfter ==
    [][WriteCallStep
        => /\ cache' = cache
           /\ (Quiet /\ wk' = wk /\ ~last'.wrote)
                => (last'.outcome = "err" /\ store' = store)]_vars

C3_Witness ==
    /\ last.op \in WriteOps /\ last.outcome = "err" /\ ~last.wrote
    /\ \E k \in DOMAIN cache : k.TableName = TableOf(last.thing)

(* C4: select idempotence.  When a select returns a result and the next    *)
(* operation is a select with the same result type and descriptor, that    *)
(* second select returns the same rows and makes no storage query.         *)
C4_Idempotent ==
    [][(/\ last.op = "select" /\ last.outcome = "ok"
        /\ SelectReturns
        /\ last'.shape = last.shape /\ last'.s = last.s)
        => (/\ ~last'.queried
            /\ last'.outcome = "ok"
            /\ last'.rows = last.rows)]_vars

(* C5: empty results are cached.  After a select that queried storage and  *)
(* returned an empty result, the cache holds an empty sequence under the   *)
(* descriptor's key.                                                       *)
C5_EmptyCached ==
    (last.op = "select" /\ last.outcome = "ok" /\ last.queried
        /\ last.rows = <<>>)
        => /\ Key(last.s) \in DOMAIN cache
           /\ cache[Key(last.s)].rows = <<>>

(* C6: absent filter.  Rendering a descriptor whose filter is the untyped  *)
(* nil or a nil pointer to a filter struct does not fail and yields        *)
(* exactly the base query.                                                 *)
C6_AbsentFilter ==
    (out.done /\ (sq.Filter.k = "nil"
                    \/ (sq.Filter.k = "ptr" /\ sq.Filter.isnil)))
        => /\ ~out.panic
           /\ out.s = IF sq.Fields = <<>>
                      THEN "SELECT * FROM " \o sq.TableName
                      ELSE "SELECT " \o Join(sq.Fields, ", ")
                               \o " FROM " \o sq.TableName

(* C7: after clearCache(t) returns, a lookup of every descriptor that was  *)
(* cached for table t before the call is a miss, however many entries and  *)
(* queries were cached for t.                                              *)
C7_ClearMisses ==
    [][\A w \in Workers :
        (wk[w].pc = "clear" /\ wk'[w].pc = "idle")
            => \A s \in ModelQueries :
                  (/\ ~String(s).panic
                   /\ s.TableName = ClearTarget(wk[w].op, wk[w].thing)
                   /\ ~getQueryFromCache(cache, s).err)
                      => getQueryFromCache(cache', s).err]_vars

C7_Witness ==
    /\ last.op \in WriteOps /\ last.outcome = "ok"
    /\ Cardinality(last.gone) >= 2
    /\ \A k \in last.gone : k \notin DOMAIN cache

(* C8: coarse invalidation by table portion.  The invalidation of a write  *)
(* removes exactly the entries whose key table is the table the write is   *)
(* addressed to (the thing of a create, the part of the identifier before  *)
(* the first ':' otherwise) and leaves every other entry unchanged; the    *)
(* storage step of the write changes no entry.                             *)
C8_CoarseByTable ==
    [][/\ \A w \in Workers :
            (wk[w].pc = "clear" /\ wk'[w].pc = "idle")
                => LET t == AddressedTable(wk[w].op, wk[w].thing)
                   IN /\ DOMAIN cache' = {k \in DOMAIN cache : k.TableName # t}
                      /\ \A k \in DOMAIN cache' : cache'[k] = cache[k]
       /\ WriteCallStep => cache' = cache]_vars

C8_Witness ==
    /\ last.op \in {"update", "change", "delete"} /\ last.outcome = "ok"
    /\ last.gone # {}
    /\ \A k \in last.gone : k.TableName = TableOf(last.thing)
    /\ \E k \in DOMAIN cache : k.TableName # TableOf(last.thing)

(* C9: shape mismatch degrades to a miss.  A select that found an entry of *)
(* another result type under its key queried storage, and when it returned *)
(* a result, that result is the rows storage holds and it is stored under  *)
(* the same key with the caller's type (compared while no later operation  *)
(* is in flight).                                                          *)
C9_MismatchIsMiss ==
    (Quiet /\ last.op = "select" /\ last.mism)
        => /\ last.queried
           /\ last.outcome = "ok"
                => /\ last.rows = StorageRows(store, String(last.s).s)
                   /\ Key(last.s) \in DOMAIN cache
                   /\ cache[Key(last.s)] = CacheValue(last.shape, last.rows)

(* C10: a cache hit short-circuits.  Whenever the cache holds an entry of  *)
(* the caller's result type under the descriptor's key, the select returns *)
(* in its first step with exactly the stored rows, makes no storage call   *)
(* and leaves the cache and the store unchanged.                           *)
HitFor(shape, s) ==
    /\ ~String(s).panic
    /\ Key(s) \in DOMAIN cache
    /\ cache[Key(s)].shape = shape

C10_HitShortCircuits ==
    [][/\ \A w \in Workers :
            (wk[w].pc = "idle" /\ wk'[w].pc = "query")
                => ~HitFor(wk'[w].shape, wk'[w].s)
       /\ (/\ Quiet /\ wk' = wk /\ last'.op = "select" /\ last' # last
           /\ HitFor(last'.shape, last'.s))
            => /\ last'.outcome = "ok"
               /\ last'.rows = cache[Key(last'.s)].rows
               /\ ~last'.queried
               /\ cache' = cache
               /\ store' = store]_vars

C10_Witness ==
    /\ last.op = "select" /\ last.outcome = "ok" /\ ~last.queried
    /\ last.rows # <<>>
    /\ Key(last.s) \in DOMAIN cache
    /\ cache[Key(last.s)] = CacheValue(last.shape, last.rows)
(* C11: an entry is visible only after its query succeeded.  A select that *)
(* returns an error (the storage query or the decoding failed) leaves the  *)
(* cache as it was, and every entry that appears or changes in the cache   *)
(* is stored by a select that is past its query and decoding and returns   *)
(* without error, under the key of its own descriptor.                     *)
C11_StoredAfterSuccess ==
    [][ /\ (SelectReturns /\ last'.op = "select" /\ last'.outcome = "err")
            => cache' = cache
        /\ \A k \in DOMAIN cache' :
              (k \notin DOMAIN cache \/ cache'[k] # cache[k])
                => \E w \in Workers :
                      /\ wk[w].pc = "put" /\ wk'[w].pc = "idle"
                      /\ Key(wk[w].s) = k
                      /\ cache'[k] = CacheValue(wk[w].shape, wk[w].p)
                      /\ wk[w].p # <<>>
                      /\ last'.op = "select" /\ last'.outcome = "ok"
                      /\ last'.queried ]_vars

C11_Witness ==
    /\ Quiet
    /\ last.op = "select" /\ last.outcome = "err" /\ last.queried
    /\ cache # EmptyCache
    /\ Key(last.s) \notin DOMAIN cache

(***************************************************************************)
(* What the filter compiler is expected to emit, stated over the fields of *)
(* the filter rather than by the loop of UseFilter.                        *)
(***************************************************************************)
StartsWith(str, pre) ==
    Len(str) >= Len(pre) /\ SubSeq(str, 1, Len(pre)) = pre

EndsWith(str, suf) ==
    Len(str) >= Len(suf)
        /\ SubSeq(str, Len(str) - Len(suf) + 1, Len(str)) = suf

Contains(str, sub) ==
    \E i \in 1..(Len(str) - Len(sub) + 1) :
        SubSeq(str, i, i + Len(sub) - 1) = sub

(* The query text before any clause of the filter. *)
Base(s) ==
    IF s.Fields = <<>>
    THEN "SELECT * FROM " \o s.TableName
    ELSE "SELECT " \o Join(s.Fields, ", ") \o " FROM " \o s.TableName

(* The argument is a non-nil pointer to a struct of a declared type. *)
StructFilter(f) == f.k = "ptr" /\ ~f.isnil /\ f.t \in DOMAIN FilterTypes

(* The part of the json tag before its first comma. *)
TagName(decl) ==
    IF \E i \in 1..Len(decl.tag) : SubSeq(decl.tag, i, i) = ","
    THEN LET c == CHOOSE i \in 1..Len(decl.tag) :
                    /\ SubSeq(decl.tag, i, i) = ","
                    /\ \A j \in 1..(i - 1) : SubSeq(decl.tag, j, j) # ","
         IN SubSeq(decl.tag, 1, c - 1)
    ELSE decl.tag

(* The SQL literal of a supported value. *)
Literal(v) ==
    CASE v.kind = "string" -> "'" \o v.s \o "'"
      [] v.kind = "bool" -> IF v.b THEN "true" ELSE "false"
      [] v.kind = "int" -> ToString(v.i)

(* A present field: a pointer field that is not nil. *)
Present(f, i) == FilterTypes[f.t][i].ptr /\ f.v[i].kind # "nil"

(* The fields excluded from WHERE as reserved. *)
ExcludedAsReserved(f) ==
    {i \in 1..Len(f.v) : TagName(FilterTypes[f.t][i]) \in {"limit", "group"}}

(* The present fields that are not excluded and hold a string, a bool or   *)
(* an int.                                                                 *)
PredicateFields(f) ==
    {i \in 1..Len(f.v) : /\ Present(f, i)
                         /\ i \notin ExcludedAsReserved(f)
                         /\ f.v[i].kind \in {"string", "bool", "int"}}

(* column = literal for the fields of I, in declaration order. *)
RECURSIVE PredsOf(_, _)
PredsOf(f, I) ==
    IF I = {} THEN <<>>
    ELSE LET m == CHOOSE i \in I : \A j \in I : j <= i
         IN PredsOf(f, I \ {m})
              \o <<TagName(FilterTypes[f.t][m]) \o " = " \o Literal(f.v[m])>>

WhereClause(f, I) ==
    IF I = {} THEN "" ELSE " WHERE " \o Join(PredsOf(f, I), " AND ")

(* Every present field of the filter carries a json tag name. *)
Tagged(f) ==
    \A i \in 1..Len(f.v) : Present(f, i) => TagName(FilterTypes[f.t][i]) # ""

(* C12: WHERE compilation.  For a filter that is a non-nil pointer to a    *)
(* struct whose present fields carry a tag name, the rendered query is the *)
(* base query followed, when at least one present field that is not excluded as reserved holds a string, a    *)
(* bool or an int, by " WHERE p1 AND ... AND pn" with one predicate        *)
(* column = value per such field in declaration order (strings in single   *)
(* quotes, bools as true/false, ints in decimal) and by no WHERE at all    *)
(* otherwise; only a GROUP BY or LIMIT clause may follow.                  *)
C12_WhereCompilation ==
    (out.done /\ StructFilter(sq.Filter) /\ Tagged(sq.Filter))
        => /\ ~out.panic
           /\ LET head == Base(sq)
                            \o WhereClause(sq.Filter, PredicateFields(sq.Filter))
                  rest == SubSeq(out.s, Len(head) + 1, Len(out.s))
              IN /\ StartsWith(out.s, head)
                 /\ \/ rest = ""
                    \/ StartsWith(rest, " GROUP BY ")
                    \/ StartsWith(rest, " LIMIT ")

C12_Witness ==
    /\ out.done
    /\ sq.Filter = PtrTo("UserFilter",
                         <<StrVal("active"), BoolVal(TRUE), NilPtr, NilPtr>>)
    /\ out.s = "SELECT * FROM users WHERE status = 'active' AND isAdmin = true"

(* The fields of the filter declared under the Go name n. *)
Named(f, n) == {i \in 1..Len(f.v) : FilterTypes[f.t][i].name = n}

(* The clause a present control field yields. *)
GroupClause(f) ==
    IF \E i \in Named(f, "Group") : Present(f, i)
    THEN " GROUP BY " \o f.v[CHOOSE i \in Named(f, "Group") : Present(f, i)].s
    ELSE ""

LimitClause(f) ==
    IF \E i \in Named(f, "Limit") : Present(f, i)
    THEN " LIMIT "
           \o ToString(f.v[CHOOSE i \in Named(f, "Limit") : Present(f, i)].i)
    ELSE ""

(* C13: grouping and limit clauses.  The rendered query of a non-nil       *)
(* struct filter ends with " GROUP BY <value>" when the grouping selector  *)
(* is present, then " LIMIT <value>" when the limit is present, LIMIT      *)
(* last; each of the two is there exactly when its own field is present,   *)
(* whatever the other clauses, and what precedes them is the base query    *)
(* alone or the base query and a WHERE clause.                             *)
C13_GroupThenLimit ==
    (out.done /\ StructFilter(sq.Filter))
        => /\ ~out.panic
           /\ LET tail == GroupClause(sq.Filter) \o LimitClause(sq.Filter)
                  head == SubSeq(out.s, 1, Len(out.s) - Len(tail))
                  mid == SubSeq(head, Len(Base(sq)) + 1, Len(head))
              IN /\ EndsWith(out.s, tail)
                 /\ StartsWith(head, Base(sq))
                 /\ mid = "" \/ StartsWith(mid, " WHERE ")
                 /\ ~Contains(head, " GROUP BY ")
                 /\ ~Contains(head, " LIMIT ")

C13_Witness ==
    /\ out.done
    /\ sq.Filter = PtrTo("UserFilter",
                         <<NilPtr, NilPtr, StrVal("role"), IntVal(5)>>)
    /\ out.s = "SELECT * FROM users GROUP BY role LIMIT 5"

(* C14: reserved control fields never produce a predicate.  The value of   *)
(* the field that yields GROUP BY and of the field that yields LIMIT is    *)
(* never written as a predicate of WHERE, whatever json tag the field      *)
(* carries, and every present field that is excluded from WHERE as         *)
(* reserved yields its GROUP BY or LIMIT clause.                           *)
C14_ReservedNeverPredicate ==
    (out.done /\ StructFilter(sq.Filter) /\ ~out.panic)
        => LET f == sq.Filter
           IN /\ \A i \in Named(f, "Group") \cup Named(f, "Limit") :
                    Present(f, i)
                      => ~Contains(out.s, TagName(FilterTypes[f.t][i])
                                            \o " = " \o Literal(f.v[i]))
              /\ \A i \in ExcludedAsReserved(f) :
                    Present(f, i)
                      => IF TagName(FilterTypes[f.t][i]) = "limit"
                         THEN Contains(out.s, " LIMIT " \o FmtV(f.v[i]))
                         ELSE Contains(out.s, " GROUP BY " \o FmtV(f.v[i]))

(* The column the claim gives a field: the json tag name, or the field's   *)
(* own identifier when there is no tag name.                               *)
Column(decl) == IF TagName(decl) = "" THEN decl.name ELSE TagName(decl)

(* C15: column naming.  Each predicate of the rendered query names the     *)
(* part of the field's json tag before the first comma, and the field's    *)
(* own identifier when the field has no json tag or an empty tag name.     *)
C15_ColumnName ==
    (out.done /\ StructFilter(sq.Filter) /\ ~out.panic)
        => \A i \in PredicateFields(sq.Filter) :
              Contains(out.s, " " \o Column(FilterTypes[sq.Filter.t][i])
                                \o " = " \o Literal(sq.Filter.v[i]))

(* The argument is not record-like: a struct by value, a scalar, or a      *)
(* pointer to something that is not a struct.                              *)
Shapeless(f) ==
    \/ f.k \in {"struct", "scalar"}
    \/ f.k = "ptr" /\ f.t \notin DOMAIN FilterTypes

(* C16: rendering a descriptor whose filter is not record-like reports the *)
(* error InvalidFilterShape: it does not panic and yields no query text.   *)
C16_InvalidShapeReported ==
    (out.done /\ Shapeless(sq.Filter))
        => /\ ~out.panic
           /\ out.err = "InvalidFilterShape"
           /\ out.s = ""

(* The fields that cannot contribute a predicate: a field that is not a    *)
(* pointer, or a present field pointing to a value that is neither a       *)
(* string, a bool nor an int.                                              *)
Unsupported(f) ==
    {i \in 1..Len(f.v) :
        \/ ~FilterTypes[f.t][i].ptr
        \/ Present(f, i) /\ f.v[i].kind \notin {"string", "bool", "int"}}

C19_WithFilterFrame ==
    [][ wf'.called
          => /\ wf'.kept
             /\ wf'.f # NilIface
                   => sq' = [TableName |-> sq.TableName, Fields |-> sq.Fields,
                             Filter |-> wf'.f]
             /\ wf'.f = NilIface => sq' = sq ]_vars

C19_Witness ==
    /\ wf.called /\ wf.kept
    /\ wf.f = NilIface
    /\ sq.Filter = ActiveFilter

(* The payload is one the handler decodes: not nil and not empty. *)
HasPayload(d) == ~d.isnil /\ d.b # ""

(* C20: outcome mapping of a MapperHandler function.  Every triple it      *)
(* returns is (nil, 400, err) with the error of the failed unmarshalling   *)
(* or validation of the payload, (nil, 500, err) with the error dbFn       *)
(* returned, or (v, 200, nil) with the value dbFn returned without error;  *)
(* a payload that does not unmarshal or does not validate gives the        *)
(* first, and dbFn is then not called.                                     *)
C20_OutcomeMapping ==
    res.returned
        => /\ res.code \in {400, 500, 200}
           /\ res.code = 400
                 <=> /\ HasPayload(res.data)
                     /\ \/ ~Unmarshal(res.data.b).err.isnil
                        \/ ~ValidateStruct(Unmarshal(res.data.b).r).isnil
           /\ res.code = 400
                 => /\ res.v = NilAny /\ ~res.err.isnil /\ ~res.dbcalled
                    /\ res.err = IF ~Unmarshal(res.data.b).err.isnil
                                 THEN Unmarshal(res.data.b).err
                                 ELSE ValidateStruct(Unmarshal(res.data.b).r)
           /\ res.code = 500
                 <=> (res.dbcalled /\ ~res.dberr.isnil)
           /\ res.code = 500 => (res.v = NilAny /\ res.err = res.dberr)
           /\ res.code = 200
                 <=> (res.dbcalled /\ res.dberr.isnil)
           /\ res.code = 200 => (res.v.k = "val" /\ res.err = NilErr)

C20_Witness ==
    /\ res.returned /\ ~res.dbcalled
    /\ res.code = 400 /\ res.data = Data("{\"n\":0}")
    /\ res.err = Err("Field validation for 'N' failed")

(* C21: validation precedes the database step.  dbFn is invoked only on a  *)
(* request value that was unmarshalled from the payload and has passed     *)
(* struct validation, for every message, a nil or empty payload included.  *)
C21_ValidatedBeforeDb ==
    /\ hd.pc = "db" => (hd.unmarshalled /\ hd.validated)
    /\ (res.returned /\ res.dbcalled) => (res.unmarshalled /\ res.validated)

(* C22: no stale entry survives a write under concurrency.  When a select  *)
(* returns after a successful write addressed to its table has returned,   *)
(* no operation is in flight any more and that write is the only one       *)
(* storage has applied, the cache holds no entry of the table whose rows   *)
(* were read from storage before the write.                                *)
C22_NoStaleEntry ==
    (/\ Quiet
     /\ last.op = "select" /\ last.after /\ last.outcome = "ok"
     /\ Writes(store) = 1)
        => \A k \in DOMAIN cache :
              k.TableName = last.s.TableName
                => \A i \in 1..Len(cache[k].rows) :
                      cache[k].rows[i].ver = store[k.TableName].ver

(* C25: key/query agreement.  In every reachable state, whatever the       *)
(* interleaving of the workers and of writes to the filter struct of a     *)
(* select in flight, the entry under key (t, q) holds rows that storage    *)
(* returned for the query text q.                                          *)
C25_KeyQueryAgree ==
    \A k \in DOMAIN cache :
        \A i \in 1..Len(cache[k].rows) : cache[k].rows[i].query = k.Query

(* C26: invalidation covers record-addressed forms.  After a mutating      *)
(* operation on a record of table t has returned successfully (a create    *)
(* whose thing is the record identifier t:id included) the cache holds no  *)
(* entry keyed by table t, and after an update, change or delete of t:id   *)
(* it holds no entry of a select whose TableName is t:id.                  *)
C26_RecordFormsInvalidated ==
    (Quiet /\ last.op \in WriteOps /\ last.outcome = "ok")
        => \A k \in DOMAIN cache :
              /\ k.TableName # TableOf(last.thing)
              /\ last.op # "create" => k.TableName # last.thing

(* C23: pool type safety.  The error pool holds NATSError envelopes only   *)
(* and the ok pool NATSOk envelopes only, and no type assertion of         *)
(* getErrorFromPool / getOkFromPool has failed.                            *)
C23_PoolTypeSafety ==
    /\ \A x \in BagToSet(errPool) : x.type = "NATSError"
    /\ \A x \in BagToSet(okPool) : x.type = "NATSOk"
    /\ NoPanic

(* The envelope Handle builds for the result of fn. *)
ExpectedEnvelope(x) ==
    IF ~x.err.isnil
    THEN Envelope("NATSError", x.c, x.err.msg, NilAny)
    ELSE Envelope("NATSOk", x.c, "", x.v)

(* C24: response protocol of Handle.  For every received message whose     *)
(* envelope marshals, the envelope is obtained and exactly one response    *)
(* is attempted, with an error envelope carrying the status code and       *)
(* error text of fn when fn returned an error and an ok envelope carrying  *)
(* its status code and value otherwise; an envelope is put into a pool     *)
(* only by the return of the callback, after that attempt, and it is       *)
(* reset when it is put: while the response is built or sent, the          *)
(* envelope is held unchanged.                                             *)
C24_ResponseProtocol ==
    [][ /\ \A h \in Handlers :
              /\ (hs[h].pc = "get" /\ Marshals(ExpectedEnvelope(hs[h])))
                    => hs'[h].pc \in {"get", "marshal"}
              /\ (hs[h].pc = "release" /\ hs'[h].pc = "idle"
                    /\ hs[h].marshalled)
                    => (hs[h].att = 1 /\ hs[h].sent = ExpectedEnvelope(hs[h]))
              /\ hs'[h].pc \in {"marshal", "respond", "release"}
                    => hs'[h].env = ExpectedEnvelope(hs'[h])
              /\ hs'[h].att <= 1
        /\ (\/ BagCardinality(errPool') > BagCardinality(errPool)
            \/ BagCardinality(okPool') > BagCardinality(okPool))
              => \E h \in Handlers :
                    /\ hs[h].pc = "release" /\ hs'[h].pc = "idle"
                    /\ hs[h].marshalled => hs[h].att = 1
        /\ \A x \in BagToSet(errPool') \cup BagToSet(okPool') :
              x.Status = 0 /\ x.Error = "" /\ x.Body = NilAny ]_vars

====
